---- MODULE Spec2Model ----
(***************************************************************************)
(* The dish registry of src/main.py: the in-memory list platos_db and the  *)
(* five handlers get_platos, get_plato, create_plato, update_plato and     *)
(* delete_plato, with the pydantic schemas of src/schemas.py that validate *)
(* request bodies (PlatoCreate, PlatoUpdate) and stored records (Plato).   *)
(*                                                                         *)
(* Prices are floats in the source; here they are counted in hundredths    *)
(* (15.99 is 1599), which keeps the order and the comparison with 0.       *)
(* A JSON value of a request body is a record [t, v]: t is "unset" (the    *)
(* key is absent), "null", "str" or "num"; v is the value.                 *)
(***************************************************************************)
EXTENDS Integers, Sequences, FiniteSets, TLC

VARIABLES
    platos_db,      \* the list of stored Plato records (src/main.py:29)
    last,           \* the request handled last: its operation, id, status and body
    everHeld,       \* history: every id some stored dish has held so far
    createdBefore,  \* history: <<a, b>> when living dish a was created before living dish b
    tasks,          \* per client: the request in flight and the handler's position and locals
    running,        \* the client whose coroutine holds the event loop, or NoTask
    overlap         \* history: pairs of clients whose requests were in flight together

vars == <<platos_db, last, everHeld, createdBefore, tasks, running, overlap>>

-----------------------------------------------------------------------------
(* Bounds of the model *)

\* Create is explored while the id it assigns stays at or below MaxId.
MaxId == 4

-----------------------------------------------------------------------------
(* Program constants *)

NameMinLength == 1
NameMaxLength == 100

\* The outcomes of a request: the handler returned (200), it raised
\* HTTPException(status_code=404), the framework rejected the body before the
\* handler ran (422), or the handler raised an exception nothing handles (500).
OK == "Success"
NOT_FOUND == "NotFound"
VALIDATION_ERROR == "ValidationError"
SERVER_ERROR == "InternalServerError"

-----------------------------------------------------------------------------
(* Values of request bodies *)

Name100 == "NNNNNNNNNNNNNNNNNNNNNNNNNNNNNNNNNNNNNNNNNNNNNNNNNNNNNNNNNNNNNNNNNNNNNNNNNNNNNNNNNNNNNNNNNNNNNNNNNNNN"
Name101 == "NNNNNNNNNNNNNNNNNNNNNNNNNNNNNNNNNNNNNNNNNNNNNNNNNNNNNNNNNNNNNNNNNNNNNNNNNNNNNNNNNNNNNNNNNNNNNNNNNNNNN"

Unset == "unset"
Null == "null"

NameUnset == [t |-> Unset, v |-> ""]
NameNull == [t |-> Null, v |-> ""]
Str(s) == [t |-> "str", v |-> s]
PriceUnset == [t |-> Unset, v |-> 0]
PriceNull == [t |-> Null, v |-> 0]
Num(n) == [t |-> "num", v |-> n]

\* The names and prices request bodies are drawn from: absent, null, the
\* lengths 0, 100 and 101, and the prices 0 and 6.50.
NameValues == {NameUnset, NameNull, Str(""), Str(Name100), Str(Name101)}
PriceValues == {PriceUnset, PriceNull, Num(0), Num(650)}
Payloads == [name : NameValues, precio : PriceValues]
RequestIds == 0..MaxId

-----------------------------------------------------------------------------
(* src/schemas.py *)

\* name: str = Field(..., min_length=1, max_length=100)
NameFieldOk(x) ==
    /\ x.t = "str"
    /\ Len(x.v) >= NameMinLength
    /\ Len(x.v) <= NameMaxLength

\* A plausible slip: ge=0 in place of gt=0.
PrecioFieldOk_ge(x) ==
    /\ x.t = "num"
    /\ x.v >= 0

\* precio: float = Field(..., gt=0)
PrecioFieldOk(x) ==
    /\ x.t = "num"
    /\ x.v > 0

\* id: int = Field(..., gt=0)
IdFieldOk(n) == n > 0

\* PlatoCreate(PlatoBase): both fields are required.
PlatoCreateValid(p) == NameFieldOk(p.name) /\ PrecioFieldOk(p.precio)

\* PlatoUpdate: Optional fields with default None; the constraints bind a
\* supplied string or number, and None passes.
PlatoUpdateValid(p) ==
    /\ p.name.t \in {Unset, Null} \/ NameFieldOk(p.name)
    /\ p.precio.t \in {Unset, Null} \/ PrecioFieldOk(p.precio)

\* Plato(**data): whether the validation of a full record passes.
PlatoValid(data) ==
    /\ IdFieldOk(data.id)
    /\ NameFieldOk(data.name)
    /\ PrecioFieldOk(data.precio)

\* Plato(**data): the record built when the validation passes.
Plato(data) == [id |-> data.id, name |-> data.name.v, precio |-> data.precio.v]

\* platos_db[plato_index].model_dump(): the dict of a stored record.
plato_model_dump(p) == [id |-> p.id, name |-> Str(p.name), precio |-> Num(p.precio)]

\* plato_update.model_dump(exclude_unset=True): the keys of the dumped dict.
\* A key sent as null is set, and is dumped with the value None.
exclude_unset_keys(p) ==
    {k \in {"name", "precio"} : p[k].t # Unset}

-----------------------------------------------------------------------------
(* src/main.py: the expressions of the handlers *)

\* The seed records. ("Ensalada Cesar" stands for the source's accented name,
\* of the same length.)
SeedPlatos ==
    << [id |-> 1, name |-> "Pizza Margherita", precio |-> 1599],
       [id |-> 2, name |-> "Pasta Carbonara", precio |-> 1250],
       [id |-> 3, name |-> "Ensalada Cesar", precio |-> 899] >>

Ids(db) == {db[i].id : i \in 1..Len(db)}

MaxOf(S, default) == IF S = {} THEN default ELSE CHOOSE m \in S : \A x \in S : x <= m

\* A plausible slip: the id taken from the number of records.
new_id_from_len(db) == Len(db) + 1

\* max([p.id for p in platos_db], default=0) + 1
new_id(db) == MaxOf(Ids(db), 0) + 1

\* next((i for i, p in enumerate(platos_db) if p.id == plato_id), None):
\* the first position holding the id, 0 for None (positions start at 1 here).
find_index(db, plato_id) ==
    LET hits == {i \in 1..Len(db) : db[i].id = plato_id}
    IN  IF hits = {} THEN 0 ELSE CHOOSE i \in hits : \A j \in hits : i <= j

\* A plausible slip: the new record put first.
db_insert_front(db, p) == <<p>> \o db

\* platos_db.append(new_plato)
db_append(db, p) == Append(db, p)

\* A plausible slip: the record removed and the new one appended.
db_move_to_end(db, i, p) ==
    [k \in 1..Len(db) |-> IF k < i THEN db[k] ELSE IF k < Len(db) THEN db[k + 1] ELSE p]

\* platos_db[plato_index] = updated_plato
db_replace(db, i, p) == [db EXCEPT ![i] = p]

\* A plausible slip: pop() without the index, which removes the last record.
db_pop_last(db, i) == SubSeq(db, 1, Len(db) - 1)

\* platos_db.pop(plato_index): the list without position i.
db_pop(db, i) == SubSeq(db, 1, i - 1) \o SubSeq(db, i + 1, Len(db))

\* A plausible slip: only the name is taken from the payload.
merge_name_only(plato_data, p) ==
    [plato_data EXCEPT !.name = IF "name" \in exclude_unset_keys(p) THEN p.name ELSE @]

\* plato_data.update(plato_update.model_dump(exclude_unset=True)):
\* the keys that were sent overwrite the stored values, None included.
merge(plato_data, p) ==
    [id |-> plato_data.id,
     name |-> IF "name" \in exclude_unset_keys(p) THEN p.name ELSE plato_data.name,
     precio |-> IF "precio" \in exclude_unset_keys(p) THEN p.precio ELSE plato_data.precio]

\* A plausible slip: the merged data stored before it is validated.
stored_after_update_unchecked(db, i, data) == db_replace(db, i, Plato(data))

\* updated_plato = Plato(**plato_data); platos_db[plato_index] = updated_plato:
\* the constructor raises on invalid data, before the assignment.
stored_after_update(db, i, data) ==
    IF PlatoValid(data) THEN db_replace(db, i, Plato(data)) ELSE db

-----------------------------------------------------------------------------
(* The record of the request handled last *)

NoPlato == [id |-> 0, name |-> "", precio |-> 0]
NoPayload == [name |-> NameUnset, precio |-> PriceUnset]

\* op and plato_id name the request; payload is the validated body the handler
\* received (NoPayload when it received none or never ran); status is the
\* outcome; body is the record returned (the record deleted, for a delete) and
\* items the list returned.
Response(op, plato_id, payload, status, body, items) ==
    [op |-> op, plato_id |-> plato_id, payload |-> payload, status |-> status,
     body |-> body, items |-> items]

Failure(op, plato_id, payload, status) ==
    Response(op, plato_id, payload, status, NoPlato, <<>>)

\* The clients, each sending one request, and a client's task: the request
\* (op, plato_id, payload), the handler's position pc, its locals new_id and
\* plato_index (in local), and its outcome (status, body).
NoTask == "none"
Clients == {"c1", "c2", "c3"}
IdleTask ==
    [pc |-> "idle", op |-> "", plato_id |-> 0, payload |-> NoPayload,
     local |-> 0, status |-> "", body |-> NoPlato]

Init ==
    /\ platos_db = SeedPlatos
    /\ last = Response("startup", 0, NoPayload, OK, NoPlato, <<>>)
    /\ everHeld = Ids(SeedPlatos)
    /\ createdBefore = {<<1, 2>>, <<1, 3>>, <<2, 3>>}
    /\ tasks = [c \in Clients |-> IdleTask]
    /\ running = NoTask
    /\ overlap = {}

-----------------------------------------------------------------------------
(* The handlers, each run from its first line to its return or raise *)

\* GET /api/v1/platos
get_platos ==
    /\ last' = Response("get_platos", 0, NoPayload, OK, NoPlato, platos_db)
    /\ UNCHANGED <<platos_db, everHeld, createdBefore, tasks, running, overlap>>

\* GET /api/v1/platos/{plato_id}
get_plato(plato_id) ==
    LET i == find_index(platos_db, plato_id)
    IN  /\ last' = IF i = 0
                   THEN Failure("get_plato", plato_id, NoPayload, NOT_FOUND)
                   ELSE Response("get_plato", plato_id, NoPayload, OK, platos_db[i], <<>>)
        /\ UNCHANGED <<platos_db, everHeld, createdBefore, tasks, running, overlap>>

\* POST /api/v1/platos
create_plato(plato) ==
    IF ~PlatoCreateValid(plato)
    THEN /\ last' = Failure("create_plato", 0, NoPayload, VALIDATION_ERROR)
         /\ UNCHANGED <<platos_db, everHeld, createdBefore, tasks, running, overlap>>
    ELSE LET id == new_id(platos_db)
             new_plato == Plato([id |-> id, name |-> plato.name, precio |-> plato.precio])
         IN  /\ id <= MaxId
             /\ platos_db' = db_append(platos_db, new_plato)
             /\ last' = Response("create_plato", 0, plato, OK, new_plato, <<>>)
             /\ everHeld' = everHeld \cup {id}
             /\ createdBefore' = createdBefore \cup {<<a, id>> : a \in Ids(platos_db)}
             /\ UNCHANGED <<tasks, running, overlap>>

\* PUT /api/v1/platos/{plato_id}
update_plato(plato_id, plato_update) ==
    LET plato_index == find_index(platos_db, plato_id)
        plato_data == merge(plato_model_dump(platos_db[plato_index]), plato_update)
    IN  /\ IF ~PlatoUpdateValid(plato_update)
           THEN /\ last' = Failure("update_plato", plato_id, NoPayload, VALIDATION_ERROR)
                /\ UNCHANGED platos_db
           ELSE IF plato_index = 0
           THEN /\ last' = Failure("update_plato", plato_id, plato_update, NOT_FOUND)
                /\ UNCHANGED platos_db
           ELSE /\ platos_db' = stored_after_update(platos_db, plato_index, plato_data)
                /\ last' = IF PlatoValid(plato_data)
                           THEN Response("update_plato", plato_id, plato_update, OK,
                                         Plato(plato_data), <<>>)
                           ELSE Failure("update_plato", plato_id, plato_update,
                                        SERVER_ERROR)
        /\ UNCHANGED <<everHeld, createdBefore, tasks, running, overlap>>

\* DELETE /api/v1/platos/{plato_id}
delete_plato(plato_id) ==
    LET plato_index == find_index(platos_db, plato_id)
    IN  IF plato_index = 0
        THEN /\ last' = Failure("delete_plato", plato_id, NoPayload, NOT_FOUND)
             /\ UNCHANGED <<platos_db, everHeld, createdBefore, tasks, running, overlap>>
        ELSE /\ platos_db' = db_pop(platos_db, plato_index)
             /\ last' = Response("delete_plato", plato_id, NoPayload, OK,
                                 platos_db[plato_index], <<>>)
             /\ createdBefore' = {pr \in createdBefore : pr[1] # plato_id /\ pr[2] # plato_id}
             /\ UNCHANGED <<everHeld, tasks, running, overlap>>

Next ==
    \/ get_platos
    \/ \E plato_id \in RequestIds : get_plato(plato_id)
    \/ \E plato \in Payloads : create_plato(plato)
    \/ \E plato_id \in RequestIds, plato_update \in Payloads :
           update_plato(plato_id, plato_update)
    \/ \E plato_id \in RequestIds : delete_plato(plato_id)

Spec == Init /\ [][Next]_vars

-----------------------------------------------------------------------------
(* The handlers as coroutines on one event loop, line by line.                *)
(* A request whose body passed validation waits as a task ("ready"); the     *)
(* loop gives control to one task at a time, and a coroutine keeps control   *)
(* until it awaits or ends.                                                   *)

CreateBodies == {[name |-> Str(Name100), precio |-> Num(650)]}
UpdateBodies == {[name |-> NameUnset, precio |-> Num(650)]}

InFlight(t) == t.pc \notin {"idle", "done"}

\* A plausible slip: an await between the read of the ids and the append.
yields_after_read(line) == line = "L103"

\* Whether the handler gives up the event loop after the line: the bodies of
\* create_plato, update_plato and delete_plato hold no await.
yields(line) == FALSE

AfterLine(c, line) == IF yields(line) THEN NoTask ELSE c

FirstLine(op) ==
    CASE op = "create_plato" -> "L103"
      [] op = "update_plato" -> "L123"
      [] op = "delete_plato" -> "L150"

\* The request arrives and its body is validated; the handler has not started.
receive(c, op, plato_id, payload) ==
    /\ tasks[c].pc = "idle"
    /\ tasks' = [tasks EXCEPT ![c] = [IdleTask EXCEPT !.pc = "ready", !.op = op,
                                         !.plato_id = plato_id, !.payload = payload]]
    /\ overlap' = overlap \cup {{c, d} : d \in {e \in Clients : InFlight(tasks[e])}}
    /\ UNCHANGED <<platos_db, last, everHeld, createdBefore, running>>

\* The event loop starts or resumes a task when no coroutine holds control.
run_task(c) ==
    /\ running = NoTask
    /\ InFlight(tasks[c])
    /\ running' = c
    /\ tasks' = [tasks EXCEPT ![c].pc = IF @ = "ready" THEN FirstLine(tasks[c].op) ELSE @]
    /\ UNCHANGED <<platos_db, last, everHeld, createdBefore, overlap>>

\* new_id = max([p.id for p in platos_db], default=0) + 1
create_L103(c) ==
    /\ running = c /\ tasks[c].pc = "L103"
    /\ new_id(platos_db) <= MaxId
    /\ tasks' = [tasks EXCEPT ![c].local = new_id(platos_db), ![c].pc = "L104"]
    /\ running' = AfterLine(c, "L103")
    /\ UNCHANGED <<platos_db, last, everHeld, createdBefore, overlap>>

\* new_plato = Plato(id=new_id, ...); platos_db.append(new_plato); return new_plato
create_L104(c) ==
    LET t == tasks[c]
        new_plato == Plato([id |-> t.local, name |-> t.payload.name,
                            precio |-> t.payload.precio])
    IN  /\ running = c /\ t.pc = "L104"
        /\ platos_db' = db_append(platos_db, new_plato)
        /\ tasks' = [tasks EXCEPT ![c].pc = "done", ![c].status = OK, ![c].body = new_plato]
        /\ running' = NoTask
        /\ UNCHANGED <<last, everHeld, createdBefore, overlap>>

\* plato_index = next((i for i, p in enumerate(platos_db) if ...), None)
update_L123(c) ==
    /\ running = c /\ tasks[c].pc = "L123"
    /\ tasks' = [tasks EXCEPT ![c].local = find_index(platos_db, tasks[c].plato_id),
                              ![c].pc = IF find_index(platos_db, tasks[c].plato_id) = 0
                                        THEN "L125" ELSE "L128"]
    /\ running' = AfterLine(c, "L123")
    /\ UNCHANGED <<platos_db, last, everHeld, createdBefore, overlap>>

\* raise HTTPException(status_code=404, detail="Plato not found")
update_L125(c) ==
    /\ running = c /\ tasks[c].pc = "L125"
    /\ tasks' = [tasks EXCEPT ![c].pc = "done", ![c].status = NOT_FOUND]
    /\ running' = NoTask
    /\ UNCHANGED <<platos_db, last, everHeld, createdBefore, overlap>>

\* plato_data = ...; plato_data.update(update_data); the write and the return.
\* The handler has no await, so plato_index is a position of the list.
update_L128(c) ==
    LET t == tasks[c]
        plato_data == merge(plato_model_dump(platos_db[t.local]), t.payload)
    IN  /\ running = c /\ t.pc = "L128"
        /\ t.local \in 1..Len(platos_db)
        /\ platos_db' = stored_after_update(platos_db, t.local, plato_data)
        /\ tasks' = [tasks EXCEPT ![c].pc = "done",
                        ![c].status = IF PlatoValid(plato_data) THEN OK ELSE SERVER_ERROR,
                        ![c].body = IF PlatoValid(plato_data) THEN Plato(plato_data)
                                    ELSE NoPlato]
        /\ running' = NoTask
        /\ UNCHANGED <<last, everHeld, createdBefore, overlap>>

\* plato_index = next((i for i, p in enumerate(platos_db) if ...), None)
delete_L150(c) ==
    /\ running = c /\ tasks[c].pc = "L150"
    /\ tasks' = [tasks EXCEPT ![c].local = find_index(platos_db, tasks[c].plato_id),
                              ![c].pc = IF find_index(platos_db, tasks[c].plato_id) = 0
                                        THEN "L152" ELSE "L154"]
    /\ running' = AfterLine(c, "L150")
    /\ UNCHANGED <<platos_db, last, everHeld, createdBefore, overlap>>

\* raise HTTPException(status_code=404, detail="Plato not found")
delete_L152(c) ==
    /\ running = c /\ tasks[c].pc = "L152"
    /\ tasks' = [tasks EXCEPT ![c].pc = "done", ![c].status = NOT_FOUND]
    /\ running' = NoTask
    /\ UNCHANGED <<platos_db, last, everHeld, createdBefore, overlap>>

\* deleted_plato = platos_db.pop(plato_index); return {"message": ...}
delete_L154(c) ==
    LET t == tasks[c]
    IN  /\ running = c /\ t.pc = "L154"
        /\ t.local \in 1..Len(platos_db)
        /\ platos_db' = db_pop(platos_db, t.local)
        /\ tasks' = [tasks EXCEPT ![c].pc = "done", ![c].status = OK,
                                  ![c].body = platos_db[t.local]]
        /\ running' = NoTask
        /\ UNCHANGED <<last, everHeld, createdBefore, overlap>>

NextAsync ==
    \/ \E c \in Clients, plato \in CreateBodies : receive(c, "create_plato", 0, plato)
    \/ \E c \in Clients, plato_id \in RequestIds, plato_update \in UpdateBodies :
           receive(c, "update_plato", plato_id, plato_update)
    \/ \E c \in Clients, plato_id \in RequestIds : receive(c, "delete_plato", plato_id, NoPayload)
    \/ \E c \in Clients : run_task(c)
    \/ \E c \in Clients : create_L103(c)
    \/ \E c \in Clients : create_L104(c)
    \/ \E c \in Clients : update_L123(c)
    \/ \E c \in Clients : update_L125(c)
    \/ \E c \in Clients : update_L128(c)
    \/ \E c \in Clients : delete_L150(c)
    \/ \E c \in Clients : delete_L152(c)
    \/ \E c \in Clients : delete_L154(c)

SpecAsync == Init /\ [][NextAsync]_vars

-----------------------------------------------------------------------------
(* Properties of the registry under Spec *)

\* C1: in every reachable state no two stored dishes have the same id.
C1_UniqueIds ==
    \A i, j \in 1..Len(platos_db) : i # j => platos_db[i].id # platos_db[j].id

\* C1 witness: a dish was created after another was deleted and a third updated.
C1_Witness ==
    /\ last.op = "create_plato" /\ last.status = OK
    /\ Ids(platos_db) = {1, 3, 4}
    /\ platos_db[1].precio = 650

\* C2: the id a successful Create returns differs from every id any dish has
\* held at an earlier point, deleted dishes included.
C2_IdNeverReused ==
    [][(last'.op = "create_plato" /\ last'.status = OK)
          => last'.body.id \notin everHeld]_vars

\* A value supplied in a request body meets the constraints of Create.
SuppliedMeetsCreateConstraints(p) ==
    /\ p.name.t = Unset \/ (p.name.t = "str" /\ Len(p.name.v) >= 1 /\ Len(p.name.v) <= 100)
    /\ p.precio.t = Unset \/ (p.precio.t = "num" /\ p.precio.v > 0)

\* C3: an Update ends in success, NotFound or ValidationError, and one whose
\* payload supplies a value violating the constraints of Create (null included)
\* ends in ValidationError.
C3_UpdateOutcomes ==
    last.op = "update_plato" =>
        /\ last.status \in {OK, NOT_FOUND, VALIDATION_ERROR}
        /\ last.status # VALIDATION_ERROR => SuppliedMeetsCreateConstraints(last.payload)

\* C4: a successful Create returns the dish with id (maximum stored id) + 1,
\* or 1 on an empty registry, and the payload's name and price, and appends it
\* as the last element, leaving the stored records as they were.
C4_CreateAppendsNext ==
    [][(last'.op = "create_plato" /\ last'.status = OK) =>
          /\ last'.body.id =
                 IF platos_db = <<>> THEN 1
                 ELSE 1 + CHOOSE m \in Ids(platos_db) : \A x \in Ids(platos_db) : x <= m
          /\ last'.body.name = last'.payload.name.v
          /\ last'.body.precio = last'.payload.precio.v
          /\ Len(platos_db') = Len(platos_db) + 1
          /\ platos_db'[Len(platos_db')] = last'.body
          /\ \A k \in 1..Len(platos_db) : platos_db'[k] = platos_db[k]]_vars

\* C4 witness: a Create on the emptied registry returned id 1.
C4_Witness ==
    /\ last.op = "create_plato" /\ last.status = OK
    /\ last.body.id = 1
    /\ platos_db = <<last.body>>

\* C5: a successful Update overwrites exactly the fields the payload supplies;
\* the id, the position, the number of records and the other records stay.
C5_UpdateFrame ==
    [][(last'.op = "update_plato" /\ last'.status = OK) =>
          /\ Len(platos_db') = Len(platos_db)
          /\ \E i \in 1..Len(platos_db) :
                /\ platos_db[i].id = last'.plato_id
                /\ platos_db'[i].id = platos_db[i].id
                /\ platos_db'[i].name =
                       IF last'.payload.name.t = Unset THEN platos_db[i].name
                       ELSE last'.payload.name.v
                /\ platos_db'[i].precio =
                       IF last'.payload.precio.t = Unset THEN platos_db[i].precio
                       ELSE last'.payload.precio.v
                /\ last'.body = platos_db'[i]
                /\ \A k \in 1..Len(platos_db) : k # i => platos_db'[k] = platos_db[k]]_vars

\* C5 witness: PUT id=1 with only the price returned the dish with its name kept.
C5_Witness ==
    /\ last.op = "update_plato" /\ last.status = OK
    /\ last.payload = [name |-> NameUnset, precio |-> Num(650)]
    /\ last.body = [id |-> 1, name |-> "Pizza Margherita", precio |-> 650]
    /\ platos_db[1] = last.body

\* C6: a request that fails leaves the registry exactly as it was.
C6_FailureLeavesRegistry ==
    [][last'.status # OK => platos_db' = platos_db]_vars

\* C6 witness: an Update was rejected on a registry that had been changed.
C6_Witness ==
    /\ last.op = "update_plato" /\ last.status = VALIDATION_ERROR
    /\ Len(platos_db) = 2

\* C7: every stored dish has price > 0, a name of length 1 to 100 and id > 0.
C7_StoredDishesValid ==
    \A i \in 1..Len(platos_db) :
        /\ platos_db[i].precio > 0
        /\ Len(platos_db[i].name) >= 1
        /\ Len(platos_db[i].name) <= 100
        /\ platos_db[i].id > 0

\* C7 witness: a created dish holds a name of the greatest length allowed.
C7_Witness ==
    \E i \in 1..Len(platos_db) :
        /\ platos_db[i].id = 4
        /\ Len(platos_db[i].name) = 100
        /\ last.op = "update_plato" /\ last.status = OK /\ last.plato_id = 1

\* C8: a Get of the id issued directly after its successful Delete fails with
\* NotFound.
C8_DeletedIsNotFound ==
    [][(/\ last.op = "delete_plato" /\ last.status = OK
        /\ last'.op = "get_plato" /\ last'.plato_id = last.plato_id)
          => last'.status = NOT_FOUND]_vars

\* C8 witness: the Get of an id that a dish once held answered NotFound.
C8_Witness ==
    /\ last.op = "get_plato" /\ last.status = NOT_FOUND
    /\ last.plato_id \in everHeld

\* C9: List all returns every stored dish, in the order of creation.
C9_ListInCreationOrder ==
    last.op = "get_platos" =>
        /\ last.items = platos_db
        /\ \A i, j \in 1..Len(last.items) :
               i < j => /\ <<last.items[i].id, last.items[j].id>> \in createdBefore
                        /\ <<last.items[j].id, last.items[i].id>> \notin createdBefore

\* C9 witness: from the seed, Delete(2) then Create: the list has ids 1, 3, 4.
C9_Witness ==
    /\ last.op = "get_platos"
    /\ [k \in 1..Len(last.items) |-> last.items[k].id] = <<1, 3, 4>>
    /\ last.items[1] = SeedPlatos[1] /\ last.items[2] = SeedPlatos[3]

-----------------------------------------------------------------------------
(* Properties of concurrent requests under SpecAsync *)

MidHandler(t) == t.pc \notin {"idle", "ready", "done"}

\* A handler that has started holds the event loop until it ends: no other
\* handler runs between its read of the registry and its write.
HandlersRunToCompletion ==
    \A c \in Clients : MidHandler(tasks[c]) => running = c

\* Two Creates that were in flight together were given different ids.
ConcurrentCreatesDistinct ==
    \A c, d \in Clients :
        (/\ c # d /\ {c, d} \in overlap
         /\ tasks[c].op = "create_plato" /\ tasks[c].pc = "done"
         /\ tasks[d].op = "create_plato" /\ tasks[d].pc = "done")
            => tasks[c].body.id # tasks[d].body.id

\* C10: each handler runs from its read of the registry to its write without
\* yielding, and two Create requests in flight at the same time never read the
\* same maximum id and are given different ids.
C10_AtomicHandlers ==
    HandlersRunToCompletion /\ ConcurrentCreatesDistinct

====
